---- MODULE Spec2Model ----
(***************************************************************************)
(* Model of app.py, the Streamlit dashboard of drug seizures in Parana.    *)
(* One script run (a render cycle) is one action, Render: it loads the     *)
(* three datasets through the cached loader, applies the sidebar filters,  *)
(* derives the table, ranking, monthly totals, share and map views and     *)
(* draws the state outline.  The caches of st.cache_data and the number of *)
(* reads of every resource outlive a run; the views are those of the last  *)
(* run.                                                                    *)
(***************************************************************************)
EXTENDS Integers, Sequences, FiniteSets

\* ------------------------------------------------------------------------
\* Bounds of the model
\* ------------------------------------------------------------------------
MaxLinhas == 2
MaxPontos == 2
MaxAneis == 2
MaxPoligonos == 2
MaxLeituras == 2

\* ------------------------------------------------------------------------
\* Constants of the program
\* ------------------------------------------------------------------------
DATA_FILES == <<"Maconha", "Cocaina", "Crack">>
Drogas == {DATA_FILES[i] : i \in 1..Len(DATA_FILES)}
TOP_N == 10

\* Month columns of a dataset file, in file order
Meses == <<"Jan", "Fev">>
MesesSet == {Meses[i] : i \in 1..Len(Meses)}

\* ------------------------------------------------------------------------
\* Municipality names: sequences of characters
\* ------------------------------------------------------------------------
NaN == <<>>
NomesCsv == {<<"ã">>, <<"b">>}

\* unidecode of one character: the ASCII transliteration
UnidecodeChar(c) ==
    CASE c = "ã" -> <<"a">>
      [] c = "ç" -> <<"c">>
      [] c = "ß" -> <<"s", "s">>
      [] OTHER -> <<c>>

\* str.upper of one character
UpperChar(c) ==
    CASE c = "a" -> "A"
      [] c = "b" -> "B"
      [] c = "c" -> "C"
      [] c = "s" -> "S"
      [] c = "ã" -> "Ã"
      [] c = "ç" -> "Ç"
      [] OTHER -> c

RECURSIVE Unidecode(_)
Unidecode(s) ==
    IF s = <<>> THEN <<>> ELSE UnidecodeChar(Head(s)) \o Unidecode(Tail(s))

Upper(s) == [i \in 1..Len(s) |-> UpperChar(s[i])]

\* unidecode(str(s)).upper()
NameAscii(s) == Upper(Unidecode(s))

\* ------------------------------------------------------------------------
\* Dataset files and DataFrames
\* ------------------------------------------------------------------------
\* A row of a CSV file: Total is the precomputed total of the row's months
Kgs == {0, 1}
LinhasCsv ==
    {[Municipio |-> n, kg |-> k, Total |-> k[Meses[1]] + k[Meses[2]]] :
        n \in NomesCsv \cup {NaN}, k \in [MesesSet -> Kgs]}

\* idx is the row label pandas gives a row: its position in the file
ComIndice(ls) ==
    [i \in 1..Len(ls) |->
        [idx |-> i, Municipio |-> ls[i].Municipio, kg |-> ls[i].kg,
         Total |-> ls[i].Total]]

\* The files of at most MaxLinhas rows, with and without the Total column
\* (without it nothing can read the field)
Tabelas ==
    UNION {{[temTotal |-> tt, linhas |-> ComIndice(ls)] :
                ls \in [1..n -> LinhasCsv], tt \in BOOLEAN} : n \in 0..MaxLinhas}

\* pd.DataFrame()
DataFrameVazio == [temTotal |-> FALSE, linhas |-> <<>>]

\* df.empty
Empty(df) == Len(df.linhas) = 0

\* df.dropna(subset=["Municipio"], inplace=True)
DropNa(df) ==
    [df EXCEPT !.linhas = SelectSeq(df.linhas, LAMBDA l : l.Municipio # NaN)]

\* The table of spec scenario 1
TabelaExemplo ==
    [temTotal |-> TRUE,
     linhas |-> ComIndice(<<
        [Municipio |-> <<"ã">>, kg |-> [m \in MesesSet |-> 1], Total |-> 2],
        [Municipio |-> <<"b">>, kg |-> [m \in MesesSet |-> 0], Total |-> 0]>>)]

\* ------------------------------------------------------------------------
\* Geometry resources
\* ------------------------------------------------------------------------
\* Feature collections of municipalities: the display names of the features
Colecoes == {<<>>, <<<<"a">>>>, <<<<"b">>, <<"ã">>>>}

\* Rings: the first n positions [lon, lat] of a path, for the shortest and
\* the longest n
Caminho(n) == [i \in 1..n |-> <<i, i + 10>>]
Aneis == {Caminho(1), Caminho(MaxPontos)}
Poligonos == UNION {[1..n -> Aneis] : n \in 1..MaxAneis}
MultiPoligonos == UNION {[1..n -> Poligonos] : n \in 1..MaxPoligonos}

\* The geometry of the single feature of the state outline
ContornoExemplo == [type |-> "Polygon", coordinates |-> <<Caminho(2)>>]

\* Nesting depth of the coordinates of a geometry type
Profundidade(tipo) ==
    CASE tipo = "MultiPolygon" -> 4
      [] tipo = "Polygon" -> 3
      [] tipo = "MultiLineString" -> 3
      [] tipo = "LineString" -> 2
      [] tipo = "Point" -> 1

\* ------------------------------------------------------------------------
\* State
\* ------------------------------------------------------------------------
Recursos == Drogas \cup {"mun", "uf"}

VARIABLES
    arquivos,            \* the dataset files on disk: state and content
    rede,                \* whether the URL of "mun" / "uf" answers
    remoto_mun,          \* names of the features served for the municipalities
    remoto_uf,           \* geometry served for the state outline
    cache,               \* st.cache_data: resource -> cached return value
    leituras,            \* resource -> number of reads or fetches so far
    droga,               \* sidebar selection of the last run
    municipios,
    meses_selecionados,
    status,              \* how the last run ended: "ok", "stop", "erro"
    etapa,               \* the step at which it ended
    avisos,              \* st.error / st.warning / st.info shown by the run
    df_filtrado,
    ranking,
    df_total_mes,
    df_pizza,
    df_mapa,
    fig_map,
    feito                \* steps the last run executed

sessao == <<droga, municipios, meses_selecionados, status, etapa, avisos,
            df_filtrado, ranking, df_total_mes, df_pizza, df_mapa, fig_map,
            feito>>
vars == <<arquivos, rede, remoto_mun, remoto_uf, cache, leituras,
          droga, municipios, meses_selecionados, status, etapa, avisos,
          df_filtrado, ranking, df_total_mes, df_pizza, df_mapa, fig_map,
          feito>>

\* ------------------------------------------------------------------------
\* Cached loaders
\* ------------------------------------------------------------------------
CacheVazio == [r \in Recursos |-> [cheio |-> FALSE, valor |-> <<>>]]

\* Mutant of Memoriza: the decorator is missing and nothing is stored
MemorizaNada(c, k, v) == c

\* @st.cache_data stores the value a call returned; a call that raised
\* stores nothing
Memoriza(c, k, v) == [c EXCEPT ![k] = [cheio |-> TRUE, valor |-> v]]

\* carregar_dados(path) behind its cache; c and n are the cache and the read
\* counters before the call
CarregarDados(d, c, n) ==
    IF c[d].cheio
    THEN [erro |-> FALSE, valor |-> c[d].valor, cache |-> c, leituras |-> n]
    ELSE LET n2 == [n EXCEPT ![d] = @ + 1] IN
         CASE arquivos[d].estado = "ok" ->
                LET df == DropNa(arquivos[d].tabela) IN
                [erro |-> FALSE, valor |-> df, cache |-> Memoriza(c, d, df),
                 leituras |-> n2]
           [] arquivos[d].estado = "ausente" ->
                \* except FileNotFoundError
                [erro |-> FALSE, valor |-> DataFrameVazio,
                 cache |-> Memoriza(c, d, DataFrameVazio), leituras |-> n2]
           [] OTHER ->
                \* any other exception leaves the function
                [erro |-> TRUE, valor |-> DataFrameVazio, cache |-> c,
                 leituras |-> n2]

\* dados = {droga: carregar_dados(arquivo) for droga, arquivo in DATA_FILES.items()}
\* from entry i on, dados holding the frames of the entries before it
RECURSIVE CarregarPlanilhas(_, _, _, _)
CarregarPlanilhas(i, c, n, dados) ==
    IF i > Len(DATA_FILES)
    THEN [erro |-> FALSE, dados |-> dados, cache |-> c, leituras |-> n]
    ELSE LET r == CarregarDados(DATA_FILES[i], c, n) IN
         IF r.erro
         THEN [erro |-> TRUE, dados |-> dados, cache |-> r.cache,
               leituras |-> r.leituras]
         ELSE CarregarPlanilhas(i + 1, r.cache, r.leituras,
                                [dados EXCEPT ![DATA_FILES[i]] = r.valor])

\* Mutant of NormalizaFeature: the feature names are upper-cased only
NormalizaFeatureSemUnidecode(nome) == [name |-> nome, name_ascii |-> Upper(nome)]

\* f["properties"]["name_ascii"] = unidecode(f["properties"]["name"]).upper()
NormalizaFeature(nome) == [name |-> nome, name_ascii |-> NameAscii(nome)]

\* carregar_geojson_municipios_pr() behind its cache
CarregarGeojsonMunicipiosPr(c, n) ==
    IF c["mun"].cheio
    THEN [erro |-> FALSE, valor |-> c["mun"].valor, cache |-> c, leituras |-> n]
    ELSE LET n2 == [n EXCEPT !["mun"] = @ + 1] IN
         IF rede["mun"]
         THEN LET gj == [i \in 1..Len(remoto_mun) |->
                            NormalizaFeature(remoto_mun[i])] IN
              [erro |-> FALSE, valor |-> gj, cache |-> Memoriza(c, "mun", gj),
               leituras |-> n2]
         ELSE [erro |-> TRUE, valor |-> <<>>, cache |-> c, leituras |-> n2]

\* carregar_geojson_contorno_pr() behind its cache
CarregarGeojsonContornoPr(c, n) ==
    IF c["uf"].cheio
    THEN [erro |-> FALSE, valor |-> c["uf"].valor, cache |-> c, leituras |-> n]
    ELSE LET n2 == [n EXCEPT !["uf"] = @ + 1] IN
         IF rede["uf"]
         THEN [erro |-> FALSE, valor |-> remoto_uf,
               cache |-> Memoriza(c, "uf", remoto_uf), leituras |-> n2]
         ELSE [erro |-> TRUE, valor |-> remoto_uf, cache |-> c, leituras |-> n2]

\* ------------------------------------------------------------------------
\* Filters and derived views
\* ------------------------------------------------------------------------
\* municipios_options = sorted(df["Municipio"].unique())
MunicipiosOptions(df) == {df.linhas[i].Municipio : i \in 1..Len(df.linhas)}

\* What st.multiselect can return: the chosen options, in the order chosen
Multiselect(options) ==
    {s \in UNION {[1..n -> options] : n \in 0..Cardinality(options)} :
        \A i, j \in 1..Len(s) : i # j => s[i] # s[j]}

\* Mutant of Isin: an empty selection means every municipality
IsinVazioTodos(ls, muns) ==
    IF muns = {} THEN ls ELSE SelectSeq(ls, LAMBDA l : l.Municipio \in muns)

\* df[...].isin(municipios): the rows whose municipality is selected
Isin(ls, muns) == SelectSeq(ls, LAMBDA l : l.Municipio \in muns)

\* Mutant of SumAxis1: only the first selected column is read
SumAxis1PrimeiraColuna(l, ms) == IF ms = <<>> THEN 0 ELSE l.kg[Head(ms)]

\* row[meses].sum(): pandas sums an empty selection of columns to 0
RECURSIVE SumAxis1(_, _)
SumAxis1(l, ms) ==
    IF ms = <<>> THEN 0 ELSE l.kg[Head(ms)] + SumAxis1(l, Tail(ms))

\* df_filtrado[meses_selecionados].sum(axis=1) if meses_selecionados else 0
TotalSelecionado(l, ms) == IF ms # <<>> THEN SumAxis1(l, ms) ELSE 0

\* df_filtrado = df[df["Municipio"].isin(municipios)].copy() with its
\* TotalSelecionado column
DfFiltrado(df, muns, ms) ==
    LET f == Isin(df.linhas, muns) IN
    [i \in 1..Len(f) |->
        [idx |-> f[i].idx, Municipio |-> f[i].Municipio, kg |-> f[i].kg,
         Total |-> f[i].Total, TotalSelecionado |-> TotalSelecionado(f[i], ms)]]

\* df.sort_values("Total", ascending=False): the default kind, quicksort, is
\* not a stable sort, so rows of equal Total come out in any order
Permutacoes(n) ==
    {p \in [1..n -> 1..n] : \A i, j \in 1..n : i # j => p[i] # p[j]}

SortValuesTotalDesc(ls) ==
    {[i \in 1..Len(ls) |-> ls[p[i]]] :
        p \in {q \in Permutacoes(Len(ls)) :
                 \A i \in 1..(Len(ls) - 1) : ls[q[i]].Total >= ls[q[i + 1]].Total}}

\* .head(n)
HeadN(ls, n) == SubSeq(ls, 1, IF Len(ls) < n THEN Len(ls) ELSE n)

\* df[col].sum() over the rows of the table
RECURSIVE SumColuna(_, _)
SumColuna(ls, m) ==
    IF ls = <<>> THEN 0 ELSE Head(ls).kg[m] + SumColuna(Tail(ls), m)

\* Mutant of DfTotalMes: the months come out in file order
DfTotalMesOrdemArquivo(df, ms) ==
    LET sel == SelectSeq(Meses, LAMBDA m : \E i \in 1..Len(ms) : ms[i] = m) IN
    [i \in 1..Len(sel) |-> [Mes |-> sel[i], Kg |-> SumColuna(df.linhas, sel[i])]]

\* df_total_mes = df[meses_selecionados].sum()
DfTotalMes(df, ms) ==
    [i \in 1..Len(ms) |-> [Mes |-> ms[i], Kg |-> SumColuna(df.linhas, ms[i])]]

\* Mutant of DfPizza: rows without seizures are kept
DfPizzaComZeros(filt) == SelectSeq(filt, LAMBDA l : l.TotalSelecionado >= 0)

\* df_pizza = df_filtrado[df_filtrado["TotalSelecionado"] > 0]
DfPizza(filt) == SelectSeq(filt, LAMBDA l : l.TotalSelecionado > 0)

\* df_mapa: TotalSelecionado recomputed, Municipio_ascii added, zeros removed
LinhaMapa(l, ms) ==
    [idx |-> l.idx, Municipio |-> l.Municipio,
     TotalSelecionado |-> SumAxis1(l, ms),
     Municipio_ascii |-> NameAscii(l.Municipio)]

DfMapa(filt, ms) ==
    SelectSeq([i \in 1..Len(filt) |-> LinhaMapa(filt[i], ms)],
              LAMBDA l : l.TotalSelecionado > 0)

\* ------------------------------------------------------------------------
\* Map
\* ------------------------------------------------------------------------
FigVazia == [regioes |-> <<>>, traces |-> <<>>, choropleth |-> FALSE,
             exibido |-> FALSE]

\* px.choropleth(df_mapa, geojson=..., locations="Municipio_ascii",
\* featureidkey="properties.name_ascii"): a location is shaded when a feature
\* carries its key, and left out otherwise
Choropleth(dm, gj) ==
    [regioes |-> SelectSeq(dm, LAMBDA l :
                    \E i \in 1..Len(gj) : gj[i].name_ascii = l.Municipio_ascii),
     traces |-> <<>>, choropleth |-> TRUE, exibido |-> FALSE]

\* lons, lats = zip(*anel); go.Scattergeo(lon=lons, lat=lats, mode="lines")
Scattergeo(anel) ==
    [lon |-> [i \in 1..Len(anel) |-> anel[i][1]],
     lat |-> [i \in 1..Len(anel) |-> anel[i][2]]]

\* Mutant of TracesPoligono: only the outer ring is drawn
TracesPoligonoSoExterno(poligono) == <<Scattergeo(poligono[1])>>

\* for anel in poligono: fig.add_trace(...)
TracesPoligono(poligono) ==
    [i \in 1..Len(poligono) |-> Scattergeo(poligono[i])]

\* for poligono in multipoligonos: ...
RECURSIVE TracesMultipoligonos(_)
TracesMultipoligonos(mp) ==
    IF mp = <<>> THEN <<>>
    ELSE TracesPoligono(Head(mp)) \o TracesMultipoligonos(Tail(mp))

\* multipoligonos = coords if geom["type"] == "MultiPolygon" else [coords]
Multipoligonos(geom) ==
    IF geom.type = "MultiPolygon" THEN geom.coordinates
    ELSE <<geom.coordinates>>

\* adicionar_contorno_uf(fig, uf_geojson): the two loops need a list of lists
\* of rings; on anything shallower zip(*anel) raises TypeError
AdicionarContornoUf(fig, geom) ==
    LET prof == IF geom.type = "MultiPolygon" THEN Profundidade(geom.type)
                ELSE Profundidade(geom.type) + 1 IN
    IF prof = 4
    THEN [erro |-> FALSE,
          fig |-> [fig EXCEPT !.traces =
                        @ \o TracesMultipoligonos(Multipoligonos(geom))]]
    ELSE [erro |-> TRUE, fig |-> fig]

\* ------------------------------------------------------------------------
\* One run of the script
\* ------------------------------------------------------------------------
\* A run that has shown nothing yet
Base(d, c, n) ==
    [droga |-> d, municipios |-> {}, meses_selecionados |-> <<>>,
     status |-> "erro", etapa |-> "carregar_dados", avisos |-> {},
     df_filtrado |-> <<>>, ranking |-> <<>>, df_total_mes |-> <<>>,
     df_pizza |-> <<>>, df_mapa |-> <<>>, fig_map |-> FigVazia, feito |-> {},
     cache |-> c, leituras |-> n]

Termina(r) ==
    /\ cache' = r.cache
    /\ leituras' = r.leituras
    /\ droga' = r.droga
    /\ municipios' = r.municipios
    /\ meses_selecionados' = r.meses_selecionados
    /\ status' = r.status
    /\ etapa' = r.etapa
    /\ avisos' = r.avisos
    /\ df_filtrado' = r.df_filtrado
    /\ ranking' = r.ranking
    /\ df_total_mes' = r.df_total_mes
    /\ df_pizza' = r.df_pizza
    /\ df_mapa' = r.df_mapa
    /\ fig_map' = r.fig_map
    /\ feito' = r.feito
    /\ UNCHANGED <<arquivos, rede, remoto_mun, remoto_uf>>

\* Lines 201-227: the map block, given the run so far (r), the map rows and
\* the two geometry resources
BlocoMapa(r, dm, gj_mun, gj_uf) ==
    IF dm = <<>>
    THEN [r EXCEPT !.status = "ok", !.etapa = "fim",
                   !.avisos = @ \cup {"info"}]
    ELSE LET fig == Choropleth(dm, gj_mun)
             ct == AdicionarContornoUf(fig, gj_uf) IN
         IF ct.erro
         THEN [r EXCEPT !.status = "erro", !.etapa = "adicionar_contorno_uf",
                        !.fig_map = fig,
                        !.feito = @ \cup {"choropleth"}]
         ELSE [r EXCEPT !.status = "ok", !.etapa = "fim",
                        !.fig_map = [ct.fig EXCEPT !.exibido = TRUE],
                        !.feito = @ \cup {"choropleth", "contorno", "plotly_chart"}]

\* Lines 183-227, after the views of the table
Geografia(r, filt, ms) ==
    LET gm == CarregarGeojsonMunicipiosPr(r.cache, r.leituras) IN
    IF gm.erro
    THEN [r EXCEPT !.status = "erro", !.etapa = "carregar_geojson_municipios_pr",
                   !.cache = gm.cache, !.leituras = gm.leituras]
    ELSE LET gu == CarregarGeojsonContornoPr(gm.cache, gm.leituras) IN
         IF gu.erro
         THEN [r EXCEPT !.status = "erro", !.etapa = "carregar_geojson_contorno_pr",
                        !.cache = gu.cache, !.leituras = gu.leituras]
         ELSE LET dm == DfMapa(filt, ms) IN
              BlocoMapa([r EXCEPT !.cache = gu.cache, !.leituras = gu.leituras,
                                  !.df_mapa = dm,
                                  !.feito = @ \cup {"df_mapa"}],
                        dm, gm.valor, gu.valor)

\* The whole script for the sidebar state (d, the municipalities and months
\* chosen once the widgets exist)
Render(d) ==
    /\ \A r \in Recursos : leituras[r] < MaxLeituras
    /\ LET pl == CarregarPlanilhas(1, cache, leituras,
                                   [x \in Drogas |-> DataFrameVazio])
           B == Base(d, pl.cache, pl.leituras) IN
       IF pl.erro
       THEN Termina(B)
       ELSE LET df == pl.dados[d] IN
            IF Empty(df)
            THEN Termina([B EXCEPT !.status = "stop", !.etapa = "df.empty",
                                   !.avisos = {"warning"}])
            ELSE \E muns \in SUBSET MunicipiosOptions(df), ms \in Multiselect(MesesSet) :
                 LET filt == DfFiltrado(df, muns, ms)
                     F == [B EXCEPT !.municipios = muns,
                                    !.meses_selecionados = ms,
                                    !.df_filtrado = filt,
                                    !.feito = {"df_filtrado"}] IN
                 IF ~df.temTotal
                 THEN Termina([F EXCEPT !.status = "erro", !.etapa = "ranking"])
                 ELSE \E rk \in SortValuesTotalDesc(df.linhas) :
                      Termina(Geografia(
                          [F EXCEPT !.ranking = HeadN(rk, TOP_N),
                                    !.df_total_mes = DfTotalMes(df, ms),
                                    !.df_pizza = DfPizza(filt),
                                    !.feito = @ \cup {"ranking", "df_total_mes",
                                                      "df_pizza"}],
                          filt, ms))

\* The network comes or goes for one of the two URLs
MudaRede(u) ==
    /\ rede' = [rede EXCEPT ![u] = ~@]
    /\ UNCHANGED <<arquivos, remoto_mun, remoto_uf, cache, leituras>>
    /\ UNCHANGED sessao

\* ------------------------------------------------------------------------
\* Specifications
\* ------------------------------------------------------------------------
ArquivoOk(t) == [estado |-> "ok", tabela |-> t]
ArquivoAusente == [estado |-> "ausente", tabela |-> DataFrameVazio]
ArquivoIlegivel == [estado |-> "ilegivel", tabela |-> DataFrameVazio]

\* The process has started and no run has happened
InitSessao ==
    /\ cache = CacheVazio
    /\ leituras = [r \in Recursos |-> 0]
    /\ droga = DATA_FILES[1]
    /\ municipios = {}
    /\ meses_selecionados = <<>>
    /\ status = "inicio"
    /\ etapa = ""
    /\ avisos = {}
    /\ df_filtrado = <<>>
    /\ ranking = <<>>
    /\ df_total_mes = <<>>
    /\ df_pizza = <<>>
    /\ df_mapa = <<>>
    /\ fig_map = FigVazia
    /\ feito = {}

\* Tables and feature collections vary; the network is available
Init ==
    /\ InitSessao
    /\ \E t \in Tabelas :
         arquivos = [d \in Drogas |->
                        IF d = DATA_FILES[1] THEN ArquivoOk(t)
                        ELSE ArquivoAusente]
    /\ rede = [u \in {"mun", "uf"} |-> TRUE]
    /\ remoto_mun \in Colecoes
    /\ remoto_uf = ContornoExemplo

\* The first run of a fresh process
PrimeiroRender(d) == status = "inicio" /\ Render(d)

Next == \E d \in Drogas : PrimeiroRender(d)

Spec == Init /\ [][Next]_vars

\* The outline geometry varies
InitContorno ==
    /\ InitSessao
    /\ arquivos = [d \in Drogas |->
                    IF d = DATA_FILES[1] THEN ArquivoOk(TabelaExemplo)
                    ELSE ArquivoAusente]
    /\ rede = [u \in {"mun", "uf"} |-> TRUE]
    /\ remoto_mun = <<<<"a">>>>
    /\ \/ \E c \in Poligonos : remoto_uf = [type |-> "Polygon", coordinates |-> c]
       \/ \E c \in MultiPoligonos :
             remoto_uf = [type |-> "MultiPolygon", coordinates |-> c]
       \/ \E c \in Poligonos :
             remoto_uf = [type |-> "MultiLineString", coordinates |-> c]
       \/ \E c \in Aneis : remoto_uf = [type |-> "LineString", coordinates |-> c]
       \/ remoto_uf = [type |-> "Point", coordinates |-> <<1, 11>>]

SpecContorno == InitContorno /\ [][Next]_vars

\* The availability of the files and of the network varies
InitProcesso ==
    /\ InitSessao
    /\ arquivos \in [Drogas -> {ArquivoOk(TabelaExemplo), ArquivoAusente,
                                ArquivoIlegivel}]
    /\ rede \in [{"mun", "uf"} -> BOOLEAN]
    /\ remoto_mun = <<<<"a">>>>
    /\ remoto_uf = ContornoExemplo

NextProcesso ==
    \/ \E d \in Drogas : Render(d)
    \/ \E u \in {"mun", "uf"} : MudaRede(u)

SpecProcesso == InitProcesso /\ [][NextProcesso]_vars

\* ------------------------------------------------------------------------
\* Properties
\* ------------------------------------------------------------------------
\* The table the last run worked on: the cached frame of the selected drug
Tabela == cache[droga].valor.linhas

MesesEscolhidos == {meses_selecionados[i] : i \in 1..Len(meses_selecionados)}

\* The sum of a row over a set of months, month by month in file order
RECURSIVE SomaDosMeses(_, _, _)
SomaDosMeses(l, M, i) ==
    IF i = 0 THEN 0
    ELSE SomaDosMeses(l, M, i - 1) + (IF Meses[i] \in M THEN l.kg[Meses[i]] ELSE 0)

SomaEscolhida(l) == SomaDosMeses(l, MesesEscolhidos, Len(Meses))

\* The sum of one month over the rows of a table, last row first
RECURSIVE SomaDoMes(_, _, _)
SomaDoMes(t, m, i) ==
    IF i = 0 THEN 0 ELSE t[i].kg[m] + SomaDoMes(t, m, i - 1)

\* C1: the filtered view holds a row of the table if and only if the row's
\* municipality is selected, each row once and unchanged; with no
\* municipality selected the view is empty.
C1_FiltroPorMunicipio ==
    "df_filtrado" \in feito =>
        /\ \A i \in 1..Len(Tabela) :
              (Tabela[i].Municipio \in municipios)
              <=> (\E j \in 1..Len(df_filtrado) : df_filtrado[j].idx = Tabela[i].idx)
        /\ \A j \in 1..Len(df_filtrado) :
              \E i \in 1..Len(Tabela) :
                 /\ Tabela[i].idx = df_filtrado[j].idx
                 /\ Tabela[i].Municipio = df_filtrado[j].Municipio
                 /\ Tabela[i].kg = df_filtrado[j].kg
        /\ \A j, k \in 1..Len(df_filtrado) :
              j < k => df_filtrado[j].idx < df_filtrado[k].idx
        /\ (municipios = {} => df_filtrado = <<>>)

\* A run that selected some but not all municipalities of a two-row table
C1_Witness ==
    /\ "df_filtrado" \in feito
    /\ Len(Tabela) = 2
    /\ Len(df_filtrado) = 1
    /\ municipios # {}

\* C2: every row's TotalSelecionado is the sum of the row over the selected
\* months, in the filtered view and in the map rows; with no month selected it
\* is 0 in both, so no row reaches the map.
C2_TotalSelecionado ==
    /\ "df_filtrado" \in feito =>
          \A j \in 1..Len(df_filtrado) :
             /\ df_filtrado[j].TotalSelecionado = SomaEscolhida(df_filtrado[j])
             /\ (meses_selecionados = <<>> => df_filtrado[j].TotalSelecionado = 0)
    /\ "df_mapa" \in feito =>
          /\ \A k \in 1..Len(df_mapa) :
                \E j \in 1..Len(df_filtrado) :
                   /\ df_filtrado[j].idx = df_mapa[k].idx
                   /\ df_mapa[k].TotalSelecionado = SomaEscolhida(df_filtrado[j])
          /\ \A j \in 1..Len(df_filtrado) :
                (\A k \in 1..Len(df_mapa) : df_mapa[k].idx # df_filtrado[j].idx)
                => SomaEscolhida(df_filtrado[j]) = 0
          /\ (meses_selecionados = <<>> => df_mapa = <<>>)

\* A run with no month selected whose filtered rows have seizures, through
\* the map rows
C2_Witness ==
    /\ "df_mapa" \in feito
    /\ meses_selecionados = <<>>
    /\ \E j \in 1..Len(df_filtrado) : df_filtrado[j].Total > 0

\* C3: the share view is the filtered view without the rows whose
\* TotalSelecionado is not above 0, the rest unchanged and in order; it is
\* empty when no month is selected.
C3_Pizza ==
    "df_pizza" \in feito =>
        /\ \A j \in 1..Len(df_filtrado) :
              (df_filtrado[j].TotalSelecionado > 0)
              <=> (\E k \in 1..Len(df_pizza) : df_pizza[k] = df_filtrado[j])
        /\ \A k \in 1..Len(df_pizza) :
              \E j \in 1..Len(df_filtrado) : df_pizza[k] = df_filtrado[j]
        /\ \A j, k \in 1..Len(df_pizza) : j < k => df_pizza[j].idx < df_pizza[k].idx
        /\ (meses_selecionados = <<>> => df_pizza = <<>>)

\* Spec scenario 1: two filtered rows, one of them without seizures
C3_Witness ==
    /\ "df_pizza" \in feito
    /\ Len(df_filtrado) = 2
    /\ Len(df_pizza) = 1
    /\ df_pizza[1].TotalSelecionado = 2

\* C4: the ranking holds rows of the full table, sorted descending by Total,
\* at most 10 and at most as many as the table, rows of equal Total in their
\* original order.
C4_RankingEstavel ==
    "ranking" \in feito =>
        /\ Len(ranking) <= TOP_N
        /\ Len(ranking) <= Len(Tabela)
        /\ \A i \in 1..Len(ranking) : \E j \in 1..Len(Tabela) : ranking[i] = Tabela[j]
        /\ \A i, j \in 1..Len(ranking) :
              i < j => /\ ranking[i].Total >= ranking[j].Total
                       /\ (ranking[i].Total = ranking[j].Total
                           => ranking[i].idx < ranking[j].idx)

\* C5: the monthly totals have one value per selected month, in the order
\* selected, each the sum of the month over all rows of the table, whatever
\* municipalities are selected.
C5_TotalMes ==
    "df_total_mes" \in feito =>
        /\ Len(df_total_mes) = Len(meses_selecionados)
        /\ \A i \in 1..Len(df_total_mes) :
              /\ df_total_mes[i].Mes = meses_selecionados[i]
              /\ df_total_mes[i].Kg =
                    SomaDoMes(Tabela, meses_selecionados[i], Len(Tabela))

\* Both months selected against file order, no municipality selected, and
\* months whose statewide sums differ
C5_Witness ==
    /\ "df_total_mes" \in feito
    /\ meses_selecionados = <<Meses[2], Meses[1]>>
    /\ municipios = {}
    /\ Len(Tabela) = 2
    /\ df_total_mes[1].Kg = 2
    /\ df_total_mes[2].Kg = 0

\* C6: a run that selects a dataset whose file is missing or unreadable ends
\* in the warning, with no view computed, and a run that selects a dataset
\* whose file is readable runs to completion (runs that a failed fetch of a
\* geometry ended are left aside).
C6_FalhaDeCarga ==
    (/\ status # "inicio"
     /\ etapa \notin {"carregar_geojson_municipios_pr",
                      "carregar_geojson_contorno_pr"}) =>
        /\ arquivos[droga].estado \in {"ausente", "ilegivel"}
              => (status = "stop" /\ "warning" \in avisos /\ feito = {})
        /\ arquivos[droga].estado = "ok" => status = "ok"

\* The join key the spec gives a name: diacritics stripped, upper-cased
Chave(nome) ==
    CASE nome = <<"a">> -> <<"A">>
      [] nome = <<"ã">> -> <<"A">>
      [] nome = <<"b">> -> <<"B">>

\* C7: a filtered row is shaded on the map if and only if its selected total
\* is above 0 and its key is the key of some feature, table names and feature
\* names being normalized alike; a row without a feature is left out and the
\* run goes on to its end.
C7_JuncaoMapa ==
    "df_mapa" \in feito =>
        /\ status = "ok"
        /\ \A j \in 1..Len(df_filtrado) :
              (\E k \in 1..Len(fig_map.regioes) :
                    fig_map.regioes[k].idx = df_filtrado[j].idx)
              <=> /\ SomaEscolhida(df_filtrado[j]) > 0
                  /\ \E f \in 1..Len(remoto_mun) :
                        Chave(remoto_mun[f]) = Chave(df_filtrado[j].Municipio)
        /\ \A k \in 1..Len(fig_map.regioes) :
              /\ \E j \in 1..Len(df_filtrado) :
                    /\ df_filtrado[j].idx = fig_map.regioes[k].idx
                    /\ fig_map.regioes[k].TotalSelecionado = SomaEscolhida(df_filtrado[j])
                    /\ fig_map.regioes[k].Municipio_ascii = Chave(df_filtrado[j].Municipio)
              /\ \A k2 \in 1..Len(fig_map.regioes) :
                    k < k2 => fig_map.regioes[k].idx < fig_map.regioes[k2].idx

\* Two rows with seizures: one shaded through a feature whose name differs
\* from the row's only by the accent, the other without a feature
C7_Witness ==
    /\ fig_map.exibido
    /\ Len(df_mapa) = 2
    /\ Len(fig_map.regioes) = 1
    /\ \E f \in 1..Len(remoto_mun) :
          /\ remoto_mun[f] # fig_map.regioes[1].Municipio
          /\ Chave(remoto_mun[f]) = fig_map.regioes[1].Municipio_ascii

\* C8: with an outline that is neither a Polygon nor a MultiPolygon, the
\* choropleth the run has built is still displayed.
C8_ContornoIsolado ==
    ("choropleth" \in feito /\ remoto_uf.type \notin {"Polygon", "MultiPolygon"})
        => fig_map.exibido

PoligonosDoContorno ==
    IF remoto_uf.type = "Polygon" THEN <<remoto_uf.coordinates>>
    ELSE remoto_uf.coordinates

\* The number of rings of the polygons before polygon p
RECURSIVE AneisAntes(_)
AneisAntes(p) ==
    IF p = 1 THEN 0 ELSE AneisAntes(p - 1) + Len(PoligonosDoContorno[p - 1])

\* C10: for a Polygon or MultiPolygon outline the overlay is drawn and has
\* one line per ring, those of a polygon after those of the polygons before
\* it, each line with the longitudes and the latitudes of its ring in order.
C10_UmTracoPorAnel ==
    ("choropleth" \in feito /\ remoto_uf.type \in {"Polygon", "MultiPolygon"}) =>
        /\ "contorno" \in feito
        /\ Len(fig_map.traces) = AneisAntes(Len(PoligonosDoContorno) + 1)
        /\ \A p \in 1..Len(PoligonosDoContorno) :
              \A r \in 1..Len(PoligonosDoContorno[p]) :
                 LET anel == PoligonosDoContorno[p][r]
                     tr == fig_map.traces[AneisAntes(p) + r] IN
                 /\ Len(tr.lon) = Len(anel)
                 /\ Len(tr.lat) = Len(anel)
                 /\ \A i \in 1..Len(anel) :
                       tr.lon[i] = anel[i][1] /\ tr.lat[i] = anel[i][2]

\* Spec scenario 4: two polygons, each with an outer and an inner ring
C10_Witness ==
    /\ fig_map.exibido
    /\ remoto_uf.type = "MultiPolygon"
    /\ Len(remoto_uf.coordinates) = 2
    /\ Len(remoto_uf.coordinates[1]) = 2
    /\ Len(remoto_uf.coordinates[2]) = 2
    /\ Len(fig_map.traces) = 4

====
